---- MODULE Spec2Model ----
(***************************************************************************)
(* Model of the canada-energy-future data pipeline.                        *)
(*                                                                         *)
(*   useData / useDimensions / useFilteredData / useChartData / Section    *)
(*       the CSV variant (src/unnamed/part_000, lines 1-332)               *)
(*   useDimensionData / App                                                *)
(*       the pre-partitioned variant with the fetch cache (src/src/App.tsx)*)
(*                                                                         *)
(* A JavaScript string is the sequence of its UTF-16 code units, so that   *)
(* splitting, trimming, quote stripping, concatenation and the default     *)
(* Array.prototype.sort order are computed as the code computes them.      *)
(* A JavaScript number is a record [kind, neg, digits, point]: kind is     *)
(* "finite" (the value is 0.digits * 10^point, negated if neg), "inf",     *)
(* "-inf" or "nan".                                                        *)
(***************************************************************************)
EXTENDS Integers, Sequences, FiniteSets, TLC

VARIABLES
    \* ---- useData (CSV variant)
    loadPc,          \* position of the effect's promise chain
    csv,             \* the text response.text() resolved with
    data,            \* useState<Datum[]>() of useData
    alerted,         \* what .catch(alert) was called with
    dimensions,      \* useDimensions(data) as of the last render of App
    \* ---- Section (CSV variant)
    sectionPc,       \* "off", "props" (inputs given, not rendered), "rendered"
    records,         \* the data prop of the Section
    filters,         \* useState<Filter[]> of the Section
    filteredData,    \* useFilteredData(data, filters) of the last render
    chartData,       \* useChartData(filteredData, filters) of the last render
    \* ---- useDimensionData / App (pre-partitioned variant)
    manifestPc,      \* position of the /dimensions.json fetch
    manifest,        \* useState<Dimensions> of useDimensions
    selectedDimensions, \* useState of App
    pendingEffects,  \* effects of the last commit that have not run yet
    queuedSelected,  \* setSelectedDimensions not rendered yet: none, or one state
    queuedData,      \* setDimensionData not rendered yet: none, or one state
    dimensionData,   \* useState<DimensionData[]>() of useDimensionData
    dimensionDataCache, \* useRef cache: key string -> cached response
    inFlight,        \* fetches issued and not yet settled
    fetchCount,      \* number of fetches issued so far
    lastStep         \* what the last step of useDimensionData's effect did

loadVars == <<loadPc, csv, data, alerted, dimensions>>
sectionVars == <<sectionPc, records, filters, filteredData, chartData>>
dimVars == <<manifestPc, manifest, selectedDimensions, pendingEffects,
             queuedSelected, queuedData, dimensionData, dimensionDataCache,
             inFlight, fetchCount, lastStep>>
vars == <<loadVars, sectionVars, dimVars>>

\* The JavaScript value undefined: a value that is no string and no array
\* (a function whose domain is no 1 .. n).
Undefined == [u \in {0} |-> 0]

-----------------------------------------------------------------------------
\* Bounds of the model.

\* Most data rows in a fetched CSV text.
MaxRows == 2

\* Most records in the data prop of a Section.
MaxRecords == 3

\* Most fetches useDimensionData issues in one behaviour.
MaxFetches == 3

-----------------------------------------------------------------------------
\* String literals of the source, as UTF-16 code units.

StrAll == <<65,108,108>>                          \* "All"
StrCanada == <<67,97,110,97,100,97>>              \* "Canada"
StrRegion == <<82,101,103,105,111,110>>           \* "Region"
StrScenario == <<83,99,101,110,97,114,105,111>>   \* "Scenario"
StrVariable == <<86,97,114,105,97,98,108,101>>    \* "Variable"
StrYear == <<89,101,97,114>>                      \* "Year"
StrValue == <<86,97,108,117,101>>                 \* "Value"
StrCurrentMeasures ==                             \* "Current Measures"
    <<67,117,114,114,101,110,116,32,77,101,97,115,117,114,101,115>>
StrInfinity == <<73,110,102,105,110,105,116,121>> \* "Infinity"
StrNaN == <<78,97,78>>                            \* "NaN"
StrDash == <<32,45,32>>                           \* " - "
StrOpen == <<32,40>>                              \* " ("
StrClose == <<41>>                                \* ")"
StrDot == <<46>>                                  \* "."

\* Code units the parser tests for.
Quote == <<34>>
Comma == <<44>>
LineFeed == <<10>>
CarriageReturn == <<13>>

\* WhiteSpace and LineTerminator code units (String.prototype.trim, Number()).
WhiteSpace ==
    {9, 10, 11, 12, 13, 32, 160, 5760, 8232, 8233, 8239, 8287, 12288, 65279}
        \cup (8192 .. 8202)

-----------------------------------------------------------------------------
\* JavaScript numbers (IEEE 754 binary64). A finite number is held as the
\* digits Number::toString prints for it: sign neg, decimal digits s_1 .. s_k
\* (no leading and no trailing zero; none for zero) and point n, the value
\* being 0.s_1...s_k * 10^n.

Finite(neg, digits, point) ==
    [kind |-> "finite", neg |-> neg, digits |-> digits, point |-> point]
PosInf == [kind |-> "inf", neg |-> FALSE, digits |-> <<>>, point |-> 0]
NegInf == [kind |-> "-inf", neg |-> TRUE, digits |-> <<>>, point |-> 0]
NaN == [kind |-> "nan", neg |-> FALSE, digits |-> <<>>, point |-> 0]

IsFinite(n) == n.kind = "finite"

IsDigit(c) == c \in 48 .. 57

RECURSIVE DigitsToNat(_)
DigitsToNat(s) ==
    IF s = <<>> THEN 0
    ELSE 10 * DigitsToNat(SubSeq(s, 1, Len(s) - 1)) + (s[Len(s)] - 48)

RECURSIVE NatToDigits(_)
NatToDigits(n) ==
    IF n < 10 THEN <<48 + n>>
    ELSE NatToDigits(n \div 10) \o <<48 + (n % 10)>>

Zeros(n) == [i \in 1 .. n |-> 0]

\* s without its leading zeros, and without its trailing zeros.
StripLeadingZeros(s) ==
    IF \A i \in 1 .. Len(s) : s[i] = 0 THEN <<>>
    ELSE SubSeq(s, CHOOSE i \in 1 .. Len(s) :
                       s[i] # 0 /\ \A j \in 1 .. i - 1 : s[j] = 0, Len(s))

StripTrailingZeros(s) ==
    IF \A i \in 1 .. Len(s) : s[i] = 0 THEN <<>>
    ELSE SubSeq(s, 1, CHOOSE i \in 1 .. Len(s) :
                          s[i] # 0 /\ \A j \in i + 1 .. Len(s) : s[j] = 0)

\* The number of an integer of the model.
Fin(n) ==
    LET all == [i \in 1 .. Len(NatToDigits(IF n < 0 THEN 0 - n ELSE n)) |->
                    NatToDigits(IF n < 0 THEN 0 - n ELSE n)[i] - 48]
    IN  IF n = 0 THEN Finite(FALSE, <<>>, 0)
        ELSE Finite(n < 0, StripTrailingZeros(all), Len(all))

-----------------------------------------------------------------------------
\* Natural numbers of any size, for the rounding of a literal to a binary64
\* value: decimal digits, the most significant first, no leading zero (zero
\* is the empty sequence).

\* -1, 0 or 1 as a is before, equal to or after b in the order of the
\* dictionary.
DigitsCompare(a, b) ==
    LET n == IF Len(a) < Len(b) THEN Len(a) ELSE Len(b)
    IN  IF \A i \in 1 .. n : a[i] = b[i]
        THEN (IF Len(a) < Len(b) THEN 0 - 1 ELSE IF Len(a) > Len(b) THEN 1 ELSE 0)
        ELSE LET i == CHOOSE i \in 1 .. n :
                          a[i] # b[i] /\ \A j \in 1 .. i - 1 : a[j] = b[j]
             IN  IF a[i] < b[i] THEN 0 - 1 ELSE 1

\* -1, 0 or 1 as a < b, a = b or a > b.
BigCompare(a, b) ==
    IF Len(a) < Len(b) THEN 0 - 1
    ELSE IF Len(a) > Len(b) THEN 1
    ELSE DigitsCompare(a, b)

\* a + b, the carry into a position found by looking ahead.
BigAdd(a, b) ==
    LET n == (IF Len(a) < Len(b) THEN Len(b) ELSE Len(a)) + 1
        x == Zeros(n - Len(a)) \o a
        y == Zeros(n - Len(b)) \o b
        carry(p) == \E j \in p + 1 .. n :
                        /\ x[j] + y[j] >= 10
                        /\ \A l \in p + 1 .. j - 1 : x[l] + y[l] = 9
    IN  StripLeadingZeros(
            [p \in 1 .. n |-> (x[p] + y[p] + (IF carry(p) THEN 1 ELSE 0)) % 10])

\* a - b for a >= b
BigSub(a, b) ==
    LET n == Len(a)
        y == Zeros(n - Len(b)) \o b
        borrow(p) == \E j \in p + 1 .. n :
                         /\ a[j] < y[j]
                         /\ \A l \in p + 1 .. j - 1 : a[l] = y[l]
    IN  StripLeadingZeros(
            [p \in 1 .. n |->
                (a[p] - y[p] - (IF borrow(p) THEN 1 ELSE 0) + 10) % 10])

\* 2 * a
BigDouble(a) ==
    LET x == <<0>> \o a
    IN  StripLeadingZeros(
            [p \in 1 .. Len(x) |->
                (2 * x[p] + (IF p < Len(x) /\ x[p + 1] >= 5 THEN 1 ELSE 0)) % 10])

BigOdd(a) == a # <<>> /\ a[Len(a)] % 2 = 1

BigTimesTen(a) == IF a = <<>> THEN a ELSE a \o <<0>>

\* a * 2^n
RECURSIVE TimesPowerOfTwo(_, _)
TimesPowerOfTwo(a, n) ==
    IF a = <<>> \/ n = 0 THEN a
    ELSE IF n = 1 THEN BigDouble(a)
    ELSE TimesPowerOfTwo(TimesPowerOfTwo(a, n \div 2), n - n \div 2)

\* <<floor(a / b), a mod b>> for a < 10 * b
RECURSIVE DivideDigit(_, _)
DivideDigit(a, b) ==
    IF BigCompare(a, b) < 0 THEN <<0, a>>
    ELSE LET rest == DivideDigit(BigSub(a, b), b)
         IN  <<rest[1] + 1, rest[2]>>

\* <<the i + 1 digits of floor(a / b), a mod b>> for a < 10^(i + 1) * b
RECURSIVE Divide(_, _, _)
Divide(a, b, i) ==
    LET q == DivideDigit(a, b \o Zeros(i))
    IN  IF i = 0 THEN << <<q[1]>>, q[2] >>
        ELSE LET rest == Divide(q[2], b, i - 1)
             IN  << <<q[1]>> \o rest[1], rest[2] >>

-----------------------------------------------------------------------------
\* The binary64 value nearest to a decimal, and the digits that print it.

Two52 == <<4,5,0,3,5,9,9,6,2,7,3,7,0,4,9,6>>      \* 2^52
Two53 == <<9,0,0,7,1,9,9,2,5,4,7,4,0,9,9,2>>      \* 2^53

\* The exponents e of the values m * 2^e, 2^52 <= m < 2^53 (m < 2^52 at the
\* least exponent only: the subnormal values).
MinExponent == 0 - 1074
MaxExponent == 971

\* num / den >= 2^p
AtLeast(num, den, p) ==
    IF p >= 0 THEN BigCompare(num, TimesPowerOfTwo(den, p)) >= 0
    ELSE BigCompare(TimesPowerOfTwo(num, 0 - p), den) >= 0

\* The exponent e of the binary64 value nearest below num / den, a decimal
\* of the given point: the least one, or 2^(e + 52) <= num / den <
\* 2^(e + 53). It is looked for around point * log2(10).
BinaryExponent(num, den, point) ==
    CHOOSE e \in {MinExponent} \cup
                 {p - 52 : p \in ((point - 1) * 332193) \div 100000 - 1
                                     .. (point * 332193) \div 100000 + 1} :
        /\ e >= MinExponent
        /\ e = MinExponent \/ AtLeast(num, den, e + 52)
        /\ ~AtLeast(num, den, e + 53)

\* <<m, e>> for the quotient of num by den, both integers, rounded to the
\* nearest integer m, ties to the even one; a mantissa that reaches 2^53
\* moves to the next exponent.
RoundHalfEven(num, den, e) ==
    LET q == Divide(num, den, 15)
        floor == StripLeadingZeros(q[1])
        half == BigCompare(BigDouble(q[2]), den)
        m == IF half > 0 \/ (half = 0 /\ BigOdd(floor))
             THEN BigAdd(floor, <<1>>) ELSE floor
    IN  IF m = Two53 THEN <<Two52, e + 1>> ELSE <<m, e>>

\* <<m, e>> of the binary64 value nearest to num / den at its exponent e.
NearestAt(num, den, e) ==
    RoundHalfEven(TimesPowerOfTwo(num, IF e < 0 THEN 0 - e ELSE 0),
                  TimesPowerOfTwo(den, IF e > 0 THEN e ELSE 0), e)

\* <<m, e>> of the binary64 value nearest to num / den, a decimal of the
\* given point, ties to the even m (m is zero on underflow, e exceeds
\* MaxExponent on overflow).
ToBinary64(num, den, point) ==
    NearestAt(num, den, BinaryExponent(num, den, point))

\* The digits after the leading ones of the shortest decimal that rounds to
\* the value r / s, whose neighbours are halfway at (r - mMinus) / s and
\* (r + mPlus) / s.
RECURSIVE GenerateDigits(_, _, _, _, _)

\* The digits from the quotient q[1] and the remainder q[2] of 10 * r by s,
\* plus and minus being 10 * mPlus and 10 * mMinus.
DigitsFrom(q, s, plus, minus, even) ==
    LET low == BigCompare(q[2], minus)
        high == BigCompare(BigAdd(q[2], plus), s)
        tc1 == IF even THEN low <= 0 ELSE low < 0
        tc2 == IF even THEN high >= 0 ELSE high > 0
    IN  IF ~tc1 /\ ~tc2
        THEN <<q[1]>> \o GenerateDigits(q[2], s, plus, minus, even)
        ELSE IF ~tc1 THEN <<q[1] + 1>>
        ELSE IF ~tc2 THEN <<q[1]>>
        ELSE IF BigCompare(BigDouble(q[2]), s) < 0 THEN <<q[1]>>
        ELSE <<q[1] + 1>>

GenerateDigits(r, s, mPlus, mMinus, even) ==
    DigitsFrom(DivideDigit(BigTimesTen(r), s), s,
               BigTimesTen(mPlus), BigTimesTen(mMinus), even)

\* high / s < 10^p (<= when the bound itself rounds to the value)
Below(high, s, even, p) ==
    LET c == IF p >= 0 THEN BigCompare(high, s \o Zeros(p))
             ELSE BigCompare(high \o Zeros(0 - p), s)
    IN  IF even THEN c < 0 ELSE c <= 0

\* The point of the shortest decimal below high / s, looked for around the
\* estimate.
DecimalPoint(high, s, even, estimate) ==
    CHOOSE p \in estimate - 2 .. estimate + 2 :
        Below(high, s, even, p) /\ ~Below(high, s, even, p - 1)

\* <<digits, point>> of the shortest decimal of r / s at its point.
ShortestAt(r, s, mPlus, mMinus, even, point) ==
    <<GenerateDigits(r \o Zeros(IF point < 0 THEN 0 - point ELSE 0),
                     s \o Zeros(IF point > 0 THEN point ELSE 0),
                     mPlus \o Zeros(IF point < 0 THEN 0 - point ELSE 0),
                     mMinus \o Zeros(IF point < 0 THEN 0 - point ELSE 0),
                     even),
      point>>

ShortestBetween(r, s, mPlus, mMinus, even, estimate) ==
    ShortestAt(r, s, mPlus, mMinus, even,
               DecimalPoint(BigAdd(r, mPlus), s, even, estimate))

\* The gap below a power of two is half the gap above it.
Narrow(m, e) == m = Two52 /\ e > MinExponent

\* The gap to the value below m * 2^e, in units of 1 / s.
GapBelow(e) == IF e >= 0 THEN TimesPowerOfTwo(<<1>>, e) ELSE <<1>>

\* <<digits, point>> of the shortest decimal that rounds to m * 2^e (the one
\* nearest to it if several): the digits of Number::toString. The point is
\* looked for around log10(m) + e * log10(2).
ShortestDigits(m, e) ==
    ShortestBetween(
        TimesPowerOfTwo(m, (IF e >= 0 THEN e ELSE 0)
                               + (IF Narrow(m, e) THEN 2 ELSE 1)),
        TimesPowerOfTwo(<<1>>, (IF e >= 0 THEN 0 ELSE 0 - e)
                                   + (IF Narrow(m, e) THEN 2 ELSE 1)),
        IF Narrow(m, e) THEN BigDouble(GapBelow(e)) ELSE GapBelow(e),
        GapBelow(e),
        ~BigOdd(m),
        Len(m) + (e * 30103) \div 100000)

\* The number of sign neg whose magnitude is the binary64 value b = <<m, e>>.
FromBinary64(neg, b) ==
    IF b[1] = <<>> THEN Finite(neg, <<>>, 0)
    ELSE IF b[2] > MaxExponent THEN (IF neg THEN NegInf ELSE PosInf)
    ELSE LET shortest == ShortestDigits(b[1], b[2])
         IN  Finite(neg, shortest[1], shortest[2])

\* The number a decimal 0.digits * 10^point (digits without leading and
\* trailing zeros) rounds to. A decimal of 15 digits or fewer in the range
\* of the normal values is printed back with its own digits.
RoundToBinary64(neg, digits, point) ==
    IF digits = <<>> THEN Finite(neg, <<>>, 0)
    ELSE IF Len(digits) <= 15 /\ point >= 0 - 306 /\ point <= 308
    THEN Finite(neg, digits, point)
    ELSE IF point > 309 THEN (IF neg THEN NegInf ELSE PosInf)
    ELSE IF point < 0 - 323 THEN Finite(neg, <<>>, 0)
    ELSE FromBinary64(neg,
             ToBinary64(IF point >= Len(digits)
                        THEN digits \o Zeros(point - Len(digits)) ELSE digits,
                        IF point >= Len(digits)
                        THEN <<1>> ELSE <<1>> \o Zeros(Len(digits) - point),
                        point))

\* |a| compared with |b| for finite a and b: -1, 0 or 1.
MagnitudeCompare(a, b) ==
    IF a.digits = <<>> \/ b.digits = <<>>
    THEN (IF a.digits = b.digits THEN 0 ELSE IF a.digits = <<>> THEN 0 - 1 ELSE 1)
    ELSE IF a.point # b.point THEN (IF a.point < b.point THEN 0 - 1 ELSE 1)
    ELSE DigitsCompare(a.digits, b.digits)

\* a < b on numbers (false when either is NaN).
NumLess(a, b) ==
    /\ a.kind # "nan"
    /\ b.kind # "nan"
    /\ IF a.kind # "finite" \/ b.kind # "finite"
       THEN a.kind # b.kind /\ (a.kind = "-inf" \/ b.kind = "inf")
       ELSE IF a.neg # b.neg
       THEN a.neg /\ (a.digits # <<>> \/ b.digits # <<>>)
       ELSE IF a.neg THEN MagnitudeCompare(a, b) > 0
       ELSE MagnitudeCompare(a, b) < 0

\* a <= b on numbers (false when either is NaN).
NumLeq(a, b) == a.kind # "nan" /\ b.kind # "nan" /\ ~NumLess(b, a)

\* a - b > 0 on numbers: the difference of two finite values has the sign
\* of their exact difference (no difference of distinct values rounds to
\* zero), Infinity - Infinity is NaN, and NaN > 0 is false.
SubPositive(a, b) == NumLess(b, a)

\* `${n}` of a number: Number::toString, radix 10.
NumberToString(x) ==
    LET k == Len(x.digits)
        n == x.point
        s == [i \in 1 .. k |-> 48 + x.digits[i]]
        exponent == <<101, IF n - 1 < 0 THEN 45 ELSE 43>>
                        \o NatToDigits(IF n - 1 < 0 THEN 1 - n ELSE n - 1)
        body == IF k = 0 THEN <<48>>
                ELSE IF k <= n /\ n <= 21 THEN s \o [i \in 1 .. n - k |-> 48]
                ELSE IF 0 < n /\ n <= 21
                THEN SubSeq(s, 1, n) \o <<46>> \o SubSeq(s, n + 1, k)
                ELSE IF 0 - 6 < n /\ n <= 0
                THEN <<48, 46>> \o [i \in 1 .. 0 - n |-> 48] \o s
                ELSE IF k = 1 THEN s \o exponent
                ELSE <<s[1], 46>> \o SubSeq(s, 2, k) \o exponent
    IN  CASE x.kind = "nan" -> StrNaN
          [] x.kind = "inf" -> StrInfinity
          [] x.kind = "-inf" -> <<45>> \o StrInfinity
          [] OTHER -> IF x.neg /\ k > 0 THEN <<45>> \o body ELSE body

\* String.prototype.trim: the string without leading and trailing white space.
Trim(s) ==
    LET keep == {i \in 1 .. Len(s) : s[i] \notin WhiteSpace}
    IN  IF keep = {} THEN <<>>
        ELSE SubSeq(s, CHOOSE i \in keep : \A j \in keep : i <= j,
                       CHOOSE i \in keep : \A j \in keep : j <= i)

\* The value of a digit of a hexadecimal, octal or binary literal (16 for a
\* code unit that is no digit).
DigitValue(c) ==
    IF c \in 48 .. 57 THEN c - 48
    ELSE IF c \in 97 .. 102 THEN c - 87
    ELSE IF c \in 65 .. 70 THEN c - 55
    ELSE 16

\* The bits per digit of the literals 0x.., 0o.. and 0b.. (0 for any other
\* second code unit).
RadixBits(c) ==
    IF c \in {120, 88} THEN 4
    ELSE IF c \in {111, 79} THEN 3
    ELSE IF c \in {98, 66} THEN 1
    ELSE 0

\* The integer written by digits of 2^bits values each.
RECURSIVE RadixDigitsValue(_, _)
RadixDigitsValue(s, bits) ==
    IF Len(s) = 1
    THEN StripLeadingZeros(<<DigitValue(s[1]) \div 10, DigitValue(s[1]) % 10>>)
    ELSE LET half == Len(s) \div 2
         IN  BigAdd(TimesPowerOfTwo(RadixDigitsValue(SubSeq(s, 1, half), bits),
                                    bits * (Len(s) - half)),
                    RadixDigitsValue(SubSeq(s, half + 1, Len(s)), bits))

\* The exponent written by a run of decimal digits; a run of more than nine
\* significant digits stands for 10^9, which no mantissa brings back into
\* the range of the finite values.
ExponentValue(s) ==
    LET significant ==
            StripLeadingZeros([i \in 1 .. Len(s) |-> s[i] - 48])
    IN  IF Len(significant) > 9 THEN 1000000000
        ELSE DigitsToNat([i \in 1 .. Len(significant) |-> significant[i] + 48])

\* The number of 0.all * 10^point, all being decimal digits.
DecimalValue(neg, all, point) ==
    RoundToBinary64(neg, StripTrailingZeros(StripLeadingZeros(all)),
                    point - (Len(all) - Len(StripLeadingZeros(all))))

\* The first position of s that holds one of the code units (Len(s) + 1 if
\* none does).
FirstOf(s, units) ==
    LET at == {i \in 1 .. Len(s) : s[i] \in units}
    IN  IF at = {} THEN Len(s) + 1 ELSE CHOOSE i \in at : \A j \in at : i <= j

\* The exponent written after e or E: an optional sign and digits.
SignedExponent(exponent) ==
    IF exponent = <<>> THEN 0
    ELSE IF exponent[1] = 45 THEN 0 - ExponentValue(Tail(exponent))
    ELSE IF exponent[1] = 43 THEN ExponentValue(Tail(exponent))
    ELSE ExponentValue(exponent)

\* The digits of the exponent are missing or are not all digits.
BadExponent(exponent) ==
    LET digits == IF exponent # <<>> /\ exponent[1] \in {43, 45}
                  THEN Tail(exponent) ELSE exponent
    IN  digits = <<>> \/ \E i \in 1 .. Len(digits) : ~IsDigit(digits[i])

\* The number of a decimal literal whole.fraction with the exponent part
\* (from its e on, empty if there is none); NaN if it is none.
DecimalParts(neg, whole, fraction, exponentPart) ==
    IF \/ Len(whole) + Len(fraction) = 0
       \/ \E i \in 1 .. Len(whole) : ~IsDigit(whole[i])
       \/ \E i \in 1 .. Len(fraction) : ~IsDigit(fraction[i])
       \/ exponentPart # <<>> /\ BadExponent(Tail(exponentPart))
    THEN NaN
    ELSE DecimalValue(neg,
                      [i \in 1 .. Len(whole) + Len(fraction) |->
                          (whole \o fraction)[i] - 48],
                      Len(whole) + (IF exponentPart = <<>> THEN 0
                                    ELSE SignedExponent(Tail(exponentPart))))

\* The number of a mantissa and an exponent part.
MantissaExponent(neg, mantissa, exponentPart) ==
    DecimalParts(neg,
                 SubSeq(mantissa, 1, FirstOf(mantissa, {46}) - 1),
                 SubSeq(mantissa, FirstOf(mantissa, {46}) + 1, Len(mantissa)),
                 exponentPart)

\* The number of an unsigned Infinity or decimal literal.
StrUnsignedDecimalLiteral(neg, body) ==
    IF body = StrInfinity THEN (IF neg THEN NegInf ELSE PosInf)
    ELSE MantissaExponent(neg,
                          SubSeq(body, 1, FirstOf(body, {101, 69}) - 1),
                          SubSeq(body, FirstOf(body, {101, 69}), Len(body)))

\* The number of a hexadecimal, octal or binary integer literal of digits
\* of the given bits each.
NonDecimalIntegerLiteral(digits, bits) ==
    IF digits # <<>> /\ \A i \in 1 .. Len(digits) : DigitValue(digits[i]) < 2 ^ bits
    THEN LET value == RadixDigitsValue(digits, bits)
         IN  DecimalValue(FALSE, value, Len(value))
    ELSE NaN

\* The number of a trimmed string: empty (0), a hexadecimal, octal or binary
\* integer, or an optionally signed Infinity or decimal literal.
StringNumericLiteral(t) ==
    IF t = <<>> THEN Finite(FALSE, <<>>, 0)
    ELSE IF Len(t) >= 2 /\ t[1] = 48 /\ RadixBits(t[2]) # 0
    THEN NonDecimalIntegerLiteral(SubSeq(t, 3, Len(t)), RadixBits(t[2]))
    ELSE StrUnsignedDecimalLiteral(t[1] = 45,
                                   IF t[1] \in {43, 45} THEN Tail(t) ELSE t)

\* Number(s) of a string (StringToNumber): white space trimmed, then the
\* number of the literal left; NaN for any other text.
StringToNumber(s) == StringNumericLiteral(Trim(s))

-----------------------------------------------------------------------------
\* JavaScript strings.

\* a < b in the order of Array.prototype.sort without a comparator:
\* lexicographic on UTF-16 code units.
StrLess(a, b) ==
    \/ Len(a) < Len(b) /\ SubSeq(b, 1, Len(a)) = a
    \/ \E i \in 1 .. (IF Len(a) < Len(b) THEN Len(a) ELSE Len(b)) :
           /\ SubSeq(a, 1, i - 1) = SubSeq(b, 1, i - 1)
           /\ a[i] < b[i]

\* s.startsWith('"') && s.endsWith('"')
IsQuoteWrapped(s) == Len(s) >= 1 /\ s[1] = Quote[1] /\ s[Len(s)] = Quote[1]

\* s.substring(start, end): both clamped to [0, length], swapped when
\* start > end.
Substring(s, start, end) ==
    LET clamp(i) == IF i < 0 THEN 0 ELSE IF i > Len(s) THEN Len(s) ELSE i
        a == clamp(start)
        b == clamp(end)
        from == IF a < b THEN a ELSE b
        to == IF a < b THEN b ELSE a
    IN  SubSeq(s, from + 1, to)

\* s.replace(/"/g, "")
RemoveQuotes(s) == SelectSeq(s, LAMBDA c : c # Quote[1])

\* s.split(c) for a one-code-unit separator c: always at least one piece.
RECURSIVE SplitOn(_, _)
SplitOn(s, c) ==
    LET hits == {i \in 1 .. Len(s) : s[i] = c}
    IN  IF hits = {} THEN <<s>>
        ELSE LET i == CHOOSE h \in hits : \A g \in hits : h <= g
             IN  <<SubSeq(s, 1, i - 1)>> \o SplitOn(SubSeq(s, i + 1, Len(s)), c)

\* s.split(/\r?\n/g): split at every line feed; a carriage return right
\* before the line feed belongs to the separator.
SplitLines(s) ==
    LET pieces == SplitOn(s, LineFeed[1])
        strip(p) == IF p # <<>> /\ p[Len(p)] = CarriageReturn[1]
                    THEN SubSeq(p, 1, Len(p) - 1) ELSE p
    IN  [i \in 1 .. Len(pieces) |->
            IF i < Len(pieces) THEN strip(pieces[i]) ELSE pieces[i]]

\* s.split(/,/g)
SplitCells(s) == SplitOn(s, Comma[1])

\* Sequence helpers.
RECURSIVE Join(_, _)
Join(parts, sep) ==
    IF parts = <<>> THEN <<>>
    ELSE IF Len(parts) = 1 THEN parts[1]
    ELSE parts[1] \o sep \o Join(Tail(parts), sep)

Range(s) == {s[i] : i \in 1 .. Len(s)}

\* All sequences over S of length at most n.
SeqsUpTo(S, n) == UNION {[1 .. k -> S] : k \in 0 .. n}

-----------------------------------------------------------------------------
\* useData: the Record Parser.

\* array.at(index) for index >= 0.
At(array, index) ==
    IF index < Len(array) THEN array[index + 1] ELSE Undefined

\* const lines = csv.toString().trim().split(/\r?\n/g)
Lines(text) == SplitLines(Trim(text))

\* const headers = lines.at(0)?.replace(/"/g, "").split(/,/g)
Headers(text) ==
    LET first == At(Lines(text), 0)
    IN  IF first = Undefined THEN Undefined
        ELSE SplitCells(RemoveQuotes(first))

\* The cell of a [header, cell] entry: a cell wrapped in double quotes loses
\* them.
CellValue(cell) ==
    IF IsQuoteWrapped(cell) THEN Substring(cell, 1, Len(cell) - 1) ELSE cell

\* line.split(/,/g).map((cell, index) => ...) throws when a cell has no header.
RowThrows(line, headers) ==
    \E index \in 0 .. Len(SplitCells(line)) - 1 : At(headers, index) = Undefined

\* The [header, cell] entries of a line that does not throw.
RowEntries(line, headers) ==
    LET cells == SplitCells(line)
    IN  [i \in 1 .. Len(cells) |-> <<At(headers, i - 1), CellValue(cells[i])>>]

\* Object.fromEntries: the last entry of a key wins.
FromEntries(entries) ==
    [k \in {entries[i][1] : i \in 1 .. Len(entries)} |->
        LET at == {i \in 1 .. Len(entries) : entries[i][1] = k}
        IN  entries[CHOOSE i \in at : \A j \in at : j <= i][2]]

\* z.string() on a property of the row object.
ZString(raw, key) == key \in DOMAIN raw

\* z.coerce.number(): Number(input), valid unless that is NaN. No .finite()
\* check is declared, so an infinite number is valid.
ZCoerceNumber(raw, key) ==
    IF key \in DOMAIN raw THEN StringToNumber(raw[key]) ELSE NaN

\* datumSchema: whether a row object is valid, and the Datum it parses to
\* (unknown keys are stripped).
DatumValid(raw) ==
    /\ ZString(raw, StrRegion)
    /\ ZString(raw, StrScenario)
    /\ ZString(raw, StrVariable)
    /\ ZCoerceNumber(raw, StrYear).kind # "nan"
    /\ ZCoerceNumber(raw, StrValue).kind # "nan"

datumSchema(raw) ==
    [Region |-> raw[StrRegion],
     Scenario |-> raw[StrScenario],
     Variable |-> raw[StrVariable],
     Year |-> ZCoerceNumber(raw, StrYear),
     Value |-> ZCoerceNumber(raw, StrValue)]

\* Array.prototype.sort (stable) with a comparator: after[<<e, x>>] is
\* "comparator(e, x) > 0". Each element goes behind the last element that
\* need not come after it.
SortWith(s, after) ==
    LET sorted[n \in 0 .. Len(s)] ==
            IF n = 0 THEN <<>>
            ELSE LET acc == sorted[n - 1]
                     x == s[n]
                     stay == {i \in 1 .. Len(acc) : ~after[<<acc[i], x>>]}
                     k == IF stay = {} THEN 0
                          ELSE CHOOSE i \in stay : \A j \in stay : j <= i
                 IN  SubSeq(acc, 1, k) \o <<x>> \o SubSeq(acc, k + 1, Len(acc))
    IN  sorted[Len(s)]

\* data.sort((a, b) => a.Year - b.Year)
SortByYearDescending(rows) ==
    SortWith(rows, [p \in Range(rows) \X Range(rows) |->
                       SubPositive(p[2].Year, p[1].Year)])

SortByYear(rows) ==
    SortWith(rows, [p \in Range(rows) \X Range(rows) |->
                       SubPositive(p[1].Year, p[2].Year)])

\* The body of .then((csv) => {...}) up to the sort: the rows z.array(
\* datumSchema).parse returns, or the error thrown.
ParseRows(text) ==
    LET headers == Headers(text)
        lines == Lines(text)
        rest == SubSeq(lines, 2, Len(lines))
    IN  IF headers = Undefined
        THEN [ok |-> FALSE, error |-> "Missing headers", rows |-> <<>>]
        ELSE IF \E i \in 1 .. Len(rest) : RowThrows(rest[i], headers)
        THEN [ok |-> FALSE, error |-> "Missing header at index", rows |-> <<>>]
        ELSE LET raws == [i \in 1 .. Len(rest) |->
                              FromEntries(RowEntries(rest[i], headers))]
             IN  IF \E i \in 1 .. Len(raws) : ~DatumValid(raws[i])
                 THEN [ok |-> FALSE, error |-> "ZodError", rows |-> <<>>]
                 ELSE [ok |-> TRUE, error |-> "",
                       rows |-> [i \in 1 .. Len(raws) |-> datumSchema(raws[i])]]

-----------------------------------------------------------------------------
\* useDimensions (CSV variant): the Dimension Indexer.

\* Array.from(new Set(values)): the distinct values in order of first
\* occurrence.
ArrayFromSet(values) ==
    SelectSeq([i \in 1 .. Len(values) |->
                  <<values[i], \A j \in 1 .. i - 1 : values[j] # values[i]>>],
              LAMBDA p : p[2])

Firsts(pairs) == [i \in 1 .. Len(pairs) |-> pairs[i][1]]

\* strings.sort(): ascending in code-unit order.
SortStrings(strings) ==
    SortWith(strings, [p \in Range(strings) \X Range(strings) |->
                          StrLess(p[2], p[1])])

\* ["All"].concat(Array.from(new Set(data.map(f))).sort())
DimensionOptionsUnsorted(values) == <<StrAll>> \o Firsts(ArrayFromSet(values))

DimensionOptions(values) ==
    <<StrAll>> \o SortStrings(Firsts(ArrayFromSet(values)))

\* `${datum[dimension]}`
FieldString(datum, dimension) ==
    IF dimension = "Year" THEN NumberToString(datum.Year) ELSE datum[dimension]

useDimensions(d) ==
    IF d = Undefined THEN Undefined
    ELSE [dim \in {"Scenario", "Region", "Variable", "Year"} |->
             DimensionOptions([i \in 1 .. Len(d) |-> FieldString(d[i], dim)])]

-----------------------------------------------------------------------------
\* The texts the fetch of /data.csv may resolve with.

CellON == <<79,78>>            \* ON
CellQC == <<81,67>>            \* QC
CellBase == <<66,97,115,101>>  \* Base
CellWind == <<87,105,110,100>> \* Wind
CellHydro == <<72,121,100,114,111>> \* Hydro
Cell2020 == <<50,48,50,48>>    \* 2020
Cell2021 == <<50,48,50,49>>    \* 2021
Cell2020Point0 == <<50,48,50,48,46,48>> \* 2020.0
Cell1Point5 == <<49,46,53>>    \* 1.5
Cell9 == <<57>>                \* 9
Cell10 == <<49,48>>            \* 10
Cell5 == <<53>>                \* 5
Cell7 == <<55>>                \* 7
CellX == <<120>>               \* x

Quoted(cell) == Quote \o cell \o Quote

Line(cells) == Join(cells, Comma)

StdHeader == <<StrRegion, StrScenario, StrVariable, StrYear, StrValue>>

HeaderLines ==
    { Line(StdHeader),
      Line([i \in 1 .. Len(StdHeader) |-> Quoted(StdHeader[i])]),
      Line(SubSeq(StdHeader, 1, 4)) }

RowLines ==
    { Line(<<CellON, CellBase, CellWind, Cell2021, Cell5>>),
      Line(<<CellQC, CellBase, CellWind, Cell2020Point0, Cell7>>),
      Line(<<Quoted(CellON), Quoted(CellBase), Quoted(CellHydro), Cell2020, Cell1Point5>>),
      Line(<<StrAll, CellBase, CellWind, Cell10, Cell5>>),
      Line(<<CellON, CellBase, CellWind, Cell9, <<>> >>),
      Line(<<CellON, CellBase, CellWind, StrInfinity, Cell5>>),
      Line(<<CellON, CellBase, CellWind, CellX, Cell5>>),
      Line(<<CellON, CellBase, CellWind, Cell2020>>),
      Line(<<CellON, CellBase, CellWind, Cell2020, Cell5, Cell7>>) }

\* The line break of a text, and whether the text ends with one.
LineBreaks == { <<LineFeed, <<>> >>, <<CarriageReturn \o LineFeed, LineFeed>> }

\* A header line and up to MaxRows rows; the empty text and a text of white
\* space only.
CsvTexts ==
    { Join(<<h>> \o rows, eol[1]) \o eol[2] :
        h \in HeaderLines, rows \in SeqsUpTo(RowLines, MaxRows),
        eol \in LineBreaks }
    \cup { <<>>, <<32>> \o LineFeed }

-----------------------------------------------------------------------------
\* useData and the render of App that follows a state change.

LoadIdle ==
    /\ loadPc = "off"
    /\ csv = <<>>
    /\ data = Undefined
    /\ alerted = ""
    /\ dimensions = Undefined

\* After the first render: useState() is undefined, the effect has called
\* fetch("/data.csv").
LoadInit ==
    /\ loadPc = "fetching"
    /\ csv = <<>>
    /\ data = Undefined
    /\ alerted = ""
    /\ dimensions = useDimensions(Undefined)

\* .then((response) => response.text())
FetchText(text) ==
    /\ loadPc = "fetching"
    /\ loadPc' = "text"
    /\ csv' = text
    /\ UNCHANGED <<data, alerted, dimensions>>

\* fetch or response.text() rejects: .catch(alert)
FetchReject ==
    /\ loadPc = "fetching"
    /\ loadPc' = "rejected"
    /\ alerted' = "TypeError: Failed to fetch"
    /\ UNCHANGED <<csv, data, dimensions>>

\* .then((csv) => {...}): parse, then setData(data.sort(...)) and the render
\* it causes, or throw into .catch(alert).
ThenParse ==
    /\ loadPc = "text"
    /\ LET parsed == ParseRows(csv)
       IN  IF parsed.ok
           THEN /\ loadPc' = "loaded"
                /\ data' = SortByYear(parsed.rows)
                /\ dimensions' = useDimensions(data')
                /\ UNCHANGED alerted
           ELSE /\ loadPc' = "failed"
                /\ alerted' = parsed.error
                /\ UNCHANGED <<data, dimensions>>
    /\ UNCHANGED csv

\* What useData returns to App.
useData == data

-----------------------------------------------------------------------------
\* useFilteredData: the Filter Engine.

Dimensions == {"Scenario", "Region", "Variable", "Year"}

\* The callback of filters.every for one datum and one filter.
FilterPassesNoException(datum, filter) ==
    IF filter.value = StrAll THEN TRUE
    ELSE FieldString(datum, filter.dimension) = filter.value

FilterPasses(datum, filter) ==
    IF filter.value = StrAll
    THEN IF filter.dimension = "Region" /\ filter.value = StrAll
         THEN datum.Region # StrCanada
         ELSE TRUE
    ELSE FieldString(datum, filter.dimension) = filter.value

useFilteredData(d, fs) ==
    IF d = Undefined THEN Undefined
    ELSE IF Len(fs) = 0 THEN d
    ELSE SelectSeq(d, LAMBDA datum :
                          \A i \in 1 .. Len(fs) : FilterPasses(datum, fs[i]))

-----------------------------------------------------------------------------
\* useChartData (CSV variant): the Series Grouper.

\* filters.filter(dimension !== "Year" && value === "All").map(dimension)
AllDimensionsAnyValue(fs) ==
    LET kept == SelectSeq(fs, LAMBDA f : f.dimension # "Year")
    IN  [i \in 1 .. Len(kept) |-> kept[i].dimension]

AllDimensions(fs) ==
    LET kept == SelectSeq(fs, LAMBDA f : f.dimension # "Year" /\ f.value = StrAll)
    IN  [i \in 1 .. Len(kept) |-> kept[i].dimension]

\* The template literal of groupByFn.
groupByFnAlwaysParens(datum, allRegions, allVariables, allScenarios) ==
    (IF allRegions THEN datum.Region ELSE <<>>)
        \o (IF allRegions /\ allVariables THEN StrDash ELSE <<>>)
        \o (IF allVariables THEN datum.Variable ELSE <<>>)
        \o (IF allScenarios THEN StrOpen \o datum.Scenario \o StrClose ELSE <<>>)

groupByFn(datum, allRegions, allVariables, allScenarios) ==
    (IF allRegions THEN datum.Region ELSE <<>>)
        \o (IF allRegions /\ allVariables THEN StrDash ELSE <<>>)
        \o (IF allVariables THEN datum.Variable ELSE <<>>)
        \o (IF (allRegions \/ allVariables) /\ allScenarios
            THEN StrOpen \o datum.Scenario \o StrClose
            ELSE IF allScenarios THEN datum.Scenario ELSE <<>>)

\* Object.groupBy(items, callback), keys[i] being callback(items[i]): the
\* property keys in order of creation, each with its items in order.
GroupByFirstOnly(items, keys) ==
    LET created == Firsts(ArrayFromSet(keys))
    IN  [k \in 1 .. Len(created) |->
            <<created[k],
              <<items[CHOOSE i \in 1 .. Len(items) : keys[i] = created[k]]>> >>]

GroupBy(items, keys) ==
    LET created == Firsts(ArrayFromSet(keys))
        at(key) == {i \in 1 .. Len(items) : keys[i] = key}
        pick(key) == SelectSeq([i \in 1 .. Len(items) |-> <<items[i], i \in at(key)>>],
                               LAMBDA p : p[2])
    IN  [k \in 1 .. Len(created) |-> <<created[k], Firsts(pick(created[k]))>>]

\* An array index: the canonical decimal string of an integer in
\* 0 .. 2^32 - 2.
MaxArrayIndex == <<52,50,57,52,57,54,55,50,57,52>>  \* "4294967294"

IsArrayIndex(key) ==
    /\ key # <<>>
    /\ \A i \in 1 .. Len(key) : IsDigit(key[i])
    /\ (key[1] = 48 => Len(key) = 1)
    /\ \/ Len(key) < Len(MaxArrayIndex)
       \/ Len(key) = Len(MaxArrayIndex) /\ ~StrLess(MaxArrayIndex, key)

\* a < b as integers, for two array indices.
IndexLess(a, b) ==
    Len(a) < Len(b) \/ (Len(a) = Len(b) /\ StrLess(a, b))

\* Object.entries (OrdinaryOwnPropertyKeys): array indices in ascending
\* numeric order, then the other keys in order of creation.
ObjectEntries(props) ==
    LET indices == SelectSeq(props, LAMBDA p : IsArrayIndex(p[1]))
    IN  SortWith(indices, [p \in Range(indices) \X Range(indices) |->
                              IndexLess(p[2][1], p[1][1])])
            \o SelectSeq(props, LAMBDA p : ~IsArrayIndex(p[1]))

useChartData(d, fs) ==
    IF d = Undefined THEN Undefined
    ELSE LET allDimensions == AllDimensions(fs)
             allRegions == "Region" \in Range(allDimensions)
             allVariables == "Variable" \in Range(allDimensions)
             allScenarios == "Scenario" \in Range(allDimensions)
             entries == ObjectEntries(GroupBy(d,
                 [i \in 1 .. Len(d) |->
                     groupByFn(d[i], allRegions, allVariables, allScenarios)]))
         IN  [i \in 1 .. Len(entries) |->
                 [label |-> entries[i][1], data |-> entries[i][2]]]

-----------------------------------------------------------------------------
\* Section: the filter state and its render.

Filter(dimension, value) == [dimension |-> dimension, value |-> value]

InitialFilters ==
    << Filter("Scenario", StrCurrentMeasures),
       Filter("Region", StrAll),
       Filter("Variable", StrAll),
       Filter("Year", StrAll) >>

\* The updater of setFilters in the setValue of a Select.
ReplaceFilterStacking(fs, dimension, value) ==
    fs \o <<Filter(dimension, value)>>

ReplaceFilter(fs, dimension, value) ==
    SelectSeq(fs, LAMBDA f : f.dimension # dimension)
        \o <<Filter(dimension, value)>>

\* Records the parser can publish (a Region may be any string: "10", or the
\* empty string of an empty cell), and the sequences of them useData can
\* publish (sorted by Year).
RecordPool ==
    { [Region |-> CellON, Scenario |-> StrCurrentMeasures, Variable |-> CellWind,
       Year |-> Fin(2020), Value |-> Fin(5)],
      [Region |-> StrCanada, Scenario |-> StrCurrentMeasures, Variable |-> CellWind,
       Year |-> Fin(2020), Value |-> Fin(9)],
      [Region |-> CellQC, Scenario |-> CellBase, Variable |-> CellHydro,
       Year |-> Fin(2021), Value |-> Fin(7)],
      [Region |-> CellON, Scenario |-> StrCurrentMeasures, Variable |-> CellHydro,
       Year |-> Fin(2021), Value |-> Fin(5)],
      [Region |-> Cell10, Scenario |-> CellBase, Variable |-> CellHydro,
       Year |-> Fin(2021), Value |-> Fin(7)],
      [Region |-> <<>>, Scenario |-> CellBase, Variable |-> CellHydro,
       Year |-> Fin(2021), Value |-> Fin(5)] }

DataChoices ==
    {d \in SeqsUpTo(RecordPool, MaxRecords) : SortByYear(d) = d}

\* The values a filter of each dimension is given.
FilterValues(dimension) ==
    {StrAll} \cup
    CASE dimension = "Region" -> {CellON, StrCanada}
      [] dimension = "Scenario" -> {StrCurrentMeasures, CellBase}
      [] dimension = "Variable" -> {CellWind, CellHydro}
      [] dimension = "Year" -> {Cell2020, Cell2021}

\* Filter lists with at most one filter per dimension, in the order of the
\* Selects or the reverse.
FilterOrders ==
    { <<"Scenario", "Region", "Variable", "Year">>,
      <<"Year", "Variable", "Region", "Scenario">> }

FilterLists ==
    { LET present == SelectSeq(order, LAMBDA dim : dim \in DOMAIN choice)
      IN  [i \in 1 .. Len(present) |-> Filter(present[i], choice[present[i]])] :
        order \in FilterOrders,
        choice \in
            {c \in UNION {[ds -> UNION {FilterValues(dim) : dim \in Dimensions}] :
                            ds \in SUBSET Dimensions} :
                \A dim \in DOMAIN c : c[dim] \in FilterValues(dim)} }

SectionIdle ==
    /\ sectionPc = "off"
    /\ records = Undefined
    /\ filters = <<>>
    /\ filteredData = Undefined
    /\ chartData = Undefined

\* A Section given its data prop and a filter list, before its render.
SectionProps(d, fs) ==
    /\ sectionPc = "props"
    /\ records = d
    /\ filters = fs
    /\ filteredData = Undefined
    /\ chartData = Undefined

\* A Section after its first render over loaded data.
SectionMounted(d) ==
    /\ sectionPc = "rendered"
    /\ records = d
    /\ filters = InitialFilters
    /\ filteredData = useFilteredData(d, InitialFilters)
    /\ chartData = useChartData(filteredData, InitialFilters)

\* The render of Section and Visualization.
Render ==
    /\ sectionPc = "props"
    /\ sectionPc' = "rendered"
    /\ filteredData' = useFilteredData(records, filters)
    /\ chartData' = useChartData(filteredData', filters)
    /\ UNCHANGED <<records, filters>>

\* onChange of the Select of a dimension, and the render it causes. The
\* options of the Select are useDimensions(data)[dimension].
setValue(dimension, value) ==
    /\ sectionPc = "rendered"
    /\ value \in Range(useDimensions(records)[dimension])
    /\ filters' = ReplaceFilter(filters, dimension, value)
    /\ filteredData' = useFilteredData(records, filters')
    /\ chartData' = useChartData(filteredData', filters')
    /\ UNCHANGED <<sectionPc, records>>

-----------------------------------------------------------------------------
\* The pre-partitioned variant: useDimensions, App and useDimensionData.

StrSlash == <<47>>                     \* "/"
StrJson == <<46,106,115,111,110>>      \* ".json"

\* `${Scenarios}.${Regions}`: the key of the cache.
CacheKey(scenarios, regions) == scenarios \o StrDot \o regions

\* `/${Scenarios}/${Regions}.json`: the URL fetched.
Url(scenarios, regions) == StrSlash \o scenarios \o StrSlash \o regions \o StrJson

\* The parsed body of the file served at a URL: files at different URLs
\* differ (each holds one [type, year, value] tuple whose type names the
\* URL).
PublicFile(url) == << <<url, 2020, 1>> >>

\* !value of a string or undefined.
Falsy(value) == value = Undefined \/ value = <<>>

\* The manifests /dimensions.json may hold.
Manifests ==
    { [Scenarios |-> <<>>, Regions |-> <<>>],
      [Scenarios |-> <<CellBase>>, Regions |-> <<>>],
      [Scenarios |-> <<CellBase, StrCurrentMeasures>>, Regions |-> <<CellON, CellQC>>],
      [Scenarios |-> << <<97>>, <<97,46,98>> >>,         \* "a", "a.b"
       Regions |-> << <<98,46,99>>, <<99>> >>] }         \* "b.c", "c"

DimIdle ==
    /\ manifestPc = "off"
    /\ manifest = [Scenarios |-> <<>>, Regions |-> <<>>]
    /\ selectedDimensions = [Scenarios |-> Undefined, Regions |-> Undefined]
    /\ pendingEffects = {}
    /\ queuedSelected = <<>>
    /\ queuedData = <<>>
    /\ dimensionData = Undefined
    /\ dimensionDataCache = <<>>
    /\ inFlight = {}
    /\ fetchCount = 0
    /\ lastStep = "none"

\* After the mount of App: the manifest is being fetched, the effect of App
\* has selected the defaults of the empty manifest (undefined), rendered,
\* and the effect of useDimensionData has returned early.
DimInit ==
    /\ manifestPc = "fetching"
    /\ manifest = [Scenarios |-> <<>>, Regions |-> <<>>]
    /\ selectedDimensions = [Scenarios |-> Undefined, Regions |-> Undefined]
    /\ pendingEffects = {}
    /\ queuedSelected = <<>>
    /\ queuedData = <<>>
    /\ dimensionData = Undefined
    /\ dimensionDataCache = <<>>
    /\ inFlight = {}
    /\ fetchCount = 0
    /\ lastStep = "skip"

\* The effect of useDimensionData for the selection of the last commit:
\* return early, setDimensionData of the cached data, or fetch. A state set
\* in an effect is rendered later.
DimensionDataEffect(selected) ==
    LET key == CacheKey(selected.Scenarios, selected.Regions)
    IN  IF Falsy(selected.Scenarios) \/ Falsy(selected.Regions)
        THEN /\ lastStep' = "skip"
             /\ UNCHANGED <<queuedData, dimensionDataCache, inFlight, fetchCount>>
        ELSE IF key \in DOMAIN dimensionDataCache
        THEN /\ queuedData' = <<dimensionDataCache[key]>>
             /\ lastStep' = "cache"
             /\ UNCHANGED <<dimensionDataCache, inFlight, fetchCount>>
        ELSE /\ fetchCount < MaxFetches
             /\ inFlight' = inFlight \cup
                    {[id |-> fetchCount + 1,
                      Scenarios |-> selected.Scenarios,
                      Regions |-> selected.Regions]}
             /\ fetchCount' = fetchCount + 1
             /\ lastStep' = "fetch"
             /\ UNCHANGED <<queuedData, dimensionDataCache>>

\* The first option of each label: dimensions.Scenarios?.at(0) and
\* dimensions.Regions?.at(0).
Defaults ==
    [Scenarios |-> At(manifest.Scenarios, 0), Regions |-> At(manifest.Regions, 0)]

\* The dependencies [Regions, Scenarios] of the effect of useDimensionData
\* differ between two selections.
DepsChanged(before, after) ==
    before.Scenarios # after.Scenarios \/ before.Regions # after.Regions

\* /dimensions.json arrives: setDimensions and the render it causes. The
\* effect of App, whose dependency dimensions changed, is left to run in a
\* later task.
ManifestLoaded(m) ==
    /\ manifestPc = "fetching"
    /\ manifestPc' = "loaded"
    /\ manifest' = m
    /\ pendingEffects' = {"App"}
    /\ lastStep' = "none"
    /\ UNCHANGED <<selectedDimensions, queuedSelected, queuedData, dimensionData,
                   dimensionDataCache, inFlight, fetchCount>>

\* The fetch of /dimensions.json fails: .catch(console.error)
ManifestFailed ==
    /\ manifestPc = "fetching"
    /\ manifestPc' = "failed"
    /\ lastStep' = "none"
    /\ UNCHANGED <<manifest, selectedDimensions, pendingEffects, queuedSelected,
                   queuedData, dimensionData, dimensionDataCache, inFlight,
                   fetchCount>>

\* The effect of App runs in a task of its own: setSelectedDimensions of the
\* first option of each label, rendered later.
AppEffect ==
    /\ "App" \in pendingEffects
    /\ pendingEffects' = pendingEffects \ {"App"}
    /\ queuedSelected' = <<Defaults>>
    /\ lastStep' = "none"
    /\ UNCHANGED <<manifestPc, manifest, selectedDimensions, queuedData,
                   dimensionData, dimensionDataCache, inFlight, fetchCount>>

\* The effect of useDimensionData left by a render runs in a task of its
\* own (or right before the next render or event).
DimensionDataEffectRuns ==
    /\ "useDimensionData" \in pendingEffects
    /\ pendingEffects' = pendingEffects \ {"useDimensionData"}
    /\ DimensionDataEffect(selectedDimensions)
    /\ UNCHANGED <<manifestPc, manifest, selectedDimensions, queuedSelected,
                   dimensionData>>

\* The render of the states set in effects and promise callbacks: of the
\* queued states of a hook the last one is committed. Effects left by the
\* commit before run first; the effect of useDimensionData is left to run
\* when Scenarios or Regions changed.
RenderQueued ==
    /\ pendingEffects = {}
    /\ queuedSelected # <<>> \/ queuedData # <<>>
    /\ selectedDimensions' = IF queuedSelected = <<>> THEN selectedDimensions
                             ELSE queuedSelected[1]
    /\ dimensionData' = IF queuedData = <<>> THEN dimensionData
                        ELSE queuedData[1]
    /\ queuedSelected' = <<>>
    /\ queuedData' = <<>>
    /\ pendingEffects' = IF DepsChanged(selectedDimensions, selectedDimensions')
                         THEN {"useDimensionData"} ELSE {}
    /\ lastStep' = "none"
    /\ UNCHANGED <<manifestPc, manifest, dimensionDataCache, inFlight, fetchCount>>

\* onChange of the Select of a label: setSelectedDimensions with the label
\* replaced, rendered within the event, the states queued by effects and
\* promise callbacks left for their later render; the effect of
\* useDimensionData runs within the event when Scenarios or Regions changed.
\*  - An effect of App left by the render of the manifest runs during this
\*    render, after the handler: its defaults are queued behind the change
\*    and will replace it.
\*  - Defaults queued before the handler ran are rendered later with the
\*    change applied on top of them.
\*  - An effect of useDimensionData left by an earlier render runs before
\*    this render (DimensionDataEffectRuns).
SelectOption(label, value) ==
    /\ value \in Range(manifest[label])
    /\ "useDimensionData" \notin pendingEffects
    /\ selectedDimensions' = [selectedDimensions EXCEPT ![label] = value]
    /\ pendingEffects' = {}
    /\ queuedSelected' =
           IF "App" \in pendingEffects THEN <<Defaults>>
           ELSE IF queuedSelected # <<>>
           THEN <<[queuedSelected[1] EXCEPT ![label] = value]>>
           ELSE queuedSelected
    /\ IF DepsChanged(selectedDimensions, selectedDimensions')
       THEN DimensionDataEffect(selectedDimensions')
       ELSE /\ lastStep' = "none"
            /\ UNCHANGED <<queuedData, dimensionDataCache, inFlight, fetchCount>>
    /\ UNCHANGED <<manifestPc, manifest, dimensionData>>

\* A fetch of useDimensionData resolves and parses: the last .then stores
\* the data under the key of the selection the effect ran for and calls
\* setDimensionData, rendered later.
FetchResolved(request) ==
    /\ request \in inFlight
    /\ inFlight' = inFlight \ {request}
    /\ LET key == CacheKey(request.Scenarios, request.Regions)
           body == PublicFile(Url(request.Scenarios, request.Regions))
       IN  /\ dimensionDataCache' =
                  [k \in DOMAIN dimensionDataCache \cup {key} |->
                      IF k = key THEN body ELSE dimensionDataCache[k]]
           /\ queuedData' = <<body>>
    /\ lastStep' = "store"
    /\ UNCHANGED <<manifestPc, manifest, selectedDimensions, pendingEffects,
                   queuedSelected, dimensionData, fetchCount>>

\* A fetch of useDimensionData rejects or its body does not parse:
\* .catch(console.error)
FetchRejected(request) ==
    /\ request \in inFlight
    /\ inFlight' = inFlight \ {request}
    /\ lastStep' = "error"
    /\ UNCHANGED <<manifestPc, manifest, selectedDimensions, pendingEffects,
                   queuedSelected, queuedData, dimensionData,
                   dimensionDataCache, fetchCount>>

-----------------------------------------------------------------------------
\* Specifications.

\* The load of /data.csv by useData.
InitLoad == LoadInit /\ SectionIdle /\ DimIdle

NextLoad ==
    /\ \/ \E text \in CsvTexts : FetchText(text)
       \/ FetchReject
       \/ ThenParse
    /\ UNCHANGED <<sectionVars, dimVars>>

SpecLoad == InitLoad /\ [][NextLoad]_vars

\* useFilteredData and useChartData applied by one render to any data and
\* any filter list.
InitFilters ==
    /\ LoadIdle
    /\ DimIdle
    /\ \E d \in DataChoices, fs \in FilterLists : SectionProps(d, fs)

NextFilters == Render /\ UNCHANGED <<loadVars, dimVars>>

SpecFilters == InitFilters /\ [][NextFilters]_vars

\* A Section over loaded data of named regions, driven by its Selects.
SectionData ==
    {d \in DataChoices :
        /\ Len(d) = MaxRecords
        /\ Cardinality(Range(d)) = Len(d)
        /\ \A i \in 1 .. Len(d) : d[i].Region \in {CellON, CellQC, StrCanada}}

InitSection ==
    /\ LoadIdle
    /\ DimIdle
    /\ \E d \in SectionData : SectionMounted(d)

NextSection ==
    /\ \E dimension \in Dimensions :
           \E value \in Range(useDimensions(records)[dimension]) :
               setValue(dimension, value)
    /\ UNCHANGED <<loadVars, dimVars>>

SpecSection == InitSection /\ [][NextSection]_vars

\* The pre-partitioned variant: the manifest, the selection and the fetches
\* of useDimensionData.
InitDimensionData == LoadIdle /\ SectionIdle /\ DimInit

NextDimensionData ==
    /\ \/ \E m \in Manifests : ManifestLoaded(m)
       \/ ManifestFailed
       \/ AppEffect
       \/ DimensionDataEffectRuns
       \/ RenderQueued
       \/ \E label \in {"Scenarios", "Regions"} :
              \E value \in Range(manifest[label]) : SelectOption(label, value)
       \/ \E request \in inFlight : FetchResolved(request)
       \/ \E request \in inFlight : FetchRejected(request)
    /\ UNCHANGED <<loadVars, sectionVars>>

SpecDimensionData == InitDimensionData /\ [][NextDimensionData]_vars

\* The pre-partitioned variant when the manifest loads and every fetch
\* succeeds, the responses arriving in any order.
NextDimensionDataSucceeding ==
    /\ \/ \E m \in Manifests : ManifestLoaded(m)
       \/ AppEffect
       \/ DimensionDataEffectRuns
       \/ RenderQueued
       \/ \E label \in {"Scenarios", "Regions"} :
              \E value \in Range(manifest[label]) : SelectOption(label, value)
       \/ \E request \in inFlight : FetchResolved(request)
    /\ UNCHANGED <<loadVars, sectionVars>>

SpecDimensionDataSucceeding ==
    InitDimensionData /\ [][NextDimensionDataSucceeding]_vars

-----------------------------------------------------------------------------
\* Properties of useFilteredData, useChartData and Section.

\* The number of positions of a sequence that hold a value.
Count(seq, x) == Cardinality({i \in 1 .. Len(seq) : seq[i] = x})

\* A filter matches a record: "All" on a dimension other than Region, "All"
\* on Region and the record is not of Canada, or the stringified field
\* equals the value.
Matches(datum, filter) ==
    \/ filter.value = StrAll /\ filter.dimension # "Region"
    \/ filter.value = StrAll /\ filter.dimension = "Region"
           /\ datum.Region # StrCanada
    \/ filter.value # StrAll
           /\ FieldString(datum, filter.dimension) = filter.value

\* The positions of the records that match every filter.
MatchingPositions ==
    {i \in 1 .. Len(records) :
        \A k \in 1 .. Len(filters) : Matches(records[i], filters[k])}

\* C1: the filtered data are exactly the records that match every filter,
\* in the order of the input, each once (the k-th record of the result is
\* the record at the k-th matching position); with no filter the result is
\* the input.
C1_FilteredIsMatchingSubsequence ==
    sectionPc = "rendered" =>
        /\ Len(filteredData) = Cardinality(MatchingPositions)
        /\ \A k \in 1 .. Len(filteredData) :
               \E i \in MatchingPositions :
                   /\ Cardinality({j \in MatchingPositions : j <= i}) = k
                   /\ filteredData[k] = records[i]
        /\ (filters = <<>> => filteredData = records)

\* C1 witness: a render where Region is "All" next to another filter, a
\* record of Canada is dropped and other records are kept.
C1_Witness ==
    /\ sectionPc = "rendered"
    /\ Len(filters) >= 2
    /\ \E k \in 1 .. Len(filters) :
           filters[k].dimension = "Region" /\ filters[k].value = StrAll
    /\ \E i \in 1 .. Len(records) : records[i].Region = StrCanada
    /\ Len(filteredData) >= 1
    /\ Len(filteredData) < Len(records)

\* The filters of one dimension, in order.
FiltersOf(fs, dimension) == SelectSeq(fs, LAMBDA f : f.dimension = dimension)

AtMostOnePerDimension(fs) ==
    \A dimension \in Dimensions : Len(FiltersOf(fs, dimension)) <= 1

\* C2: from the initial four filters, every filter list a Section reaches
\* has at most one filter per dimension, and a step that changes the list
\* gives one dimension exactly one filter and leaves the filters of every
\* other dimension as they were.
C2_OneFilterPerDimension ==
    /\ [](sectionPc = "rendered" => AtMostOnePerDimension(filters))
    /\ [][filters' # filters =>
            \E dimension \in Dimensions :
                /\ Len(FiltersOf(filters', dimension)) = 1
                /\ \A other \in Dimensions \ {dimension} :
                       FiltersOf(filters', other) = FiltersOf(filters, other)]_vars

\* C2 witness: the Scenario filter of the initial list was replaced by a
\* selection, and the list still has four filters.
C2_Witness ==
    /\ sectionPc = "rendered"
    /\ Len(filters) = 4
    /\ FiltersOf(filters, "Scenario") = <<Filter("Scenario", CellBase)>>
    /\ FiltersOf(filters, "Region") = <<Filter("Region", CellON)>>

\* C3: the series cover the filtered data: no series is empty, no two
\* series have the same label, every record of a series is a filtered
\* record, and every filtered record is in exactly one series, as often as
\* it is in the filtered data.
C3_SeriesCoverFilteredData ==
    sectionPc = "rendered" =>
        /\ \A s \in 1 .. Len(chartData) : Len(chartData[s].data) > 0
        /\ \A s, t \in 1 .. Len(chartData) :
               chartData[s].label = chartData[t].label => s = t
        /\ \A s \in 1 .. Len(chartData) :
               Range(chartData[s].data) \subseteq Range(filteredData)
        /\ \A r \in Range(filteredData) :
               \E s \in 1 .. Len(chartData) :
                   /\ Count(chartData[s].data, r) = Count(filteredData, r)
                   /\ \A t \in 1 .. Len(chartData) :
                          t # s => Count(chartData[t].data, r) = 0

\* C3 witness: a render with two series or more, one of them of two records
\* or more.
C3_Witness ==
    /\ sectionPc = "rendered"
    /\ Len(chartData) >= 2
    /\ \E s \in 1 .. Len(chartData) : Len(chartData[s].data) >= 2

\* Whether the filter list holds the filter "All" of a dimension.
Unconstrained(dimension) ==
    \E k \in 1 .. Len(filters) :
        filters[k].dimension = dimension /\ filters[k].value = StrAll

\* The decision table of the label over Region, Variable and Scenario
\* unconstrained or not.
TableLabel(datum, r, v, s) ==
    CASE r /\ v /\ s ->
             datum.Region \o StrDash \o datum.Variable
                 \o StrOpen \o datum.Scenario \o StrClose
      [] r /\ v /\ ~s -> datum.Region \o StrDash \o datum.Variable
      [] r /\ ~v /\ s -> datum.Region \o StrOpen \o datum.Scenario \o StrClose
      [] r /\ ~v /\ ~s -> datum.Region
      [] ~r /\ v /\ s -> datum.Variable \o StrOpen \o datum.Scenario \o StrClose
      [] ~r /\ v /\ ~s -> datum.Variable
      [] ~r /\ ~v /\ s -> datum.Scenario
      [] ~r /\ ~v /\ ~s -> <<>>

\* C4: the label of the series a record is in is the label of the decision
\* table for the record, whatever the Year filter is.
C4_LabelDecisionTable ==
    sectionPc = "rendered" =>
        \A s \in 1 .. Len(chartData) :
            \A i \in 1 .. Len(chartData[s].data) :
                chartData[s].label =
                    TableLabel(chartData[s].data[i], Unconstrained("Region"),
                               Unconstrained("Variable"), Unconstrained("Scenario"))

\* C4 witness: only Scenario is unconstrained, a Year filter is set, and a
\* series is labelled by the Scenario alone.
C4_Witness ==
    /\ sectionPc = "rendered"
    /\ Unconstrained("Scenario")
    /\ ~Unconstrained("Region")
    /\ ~Unconstrained("Variable")
    /\ \E k \in 1 .. Len(filters) :
           filters[k].dimension = "Year" /\ filters[k].value # StrAll
    /\ \E s \in 1 .. Len(chartData) : chartData[s].label = StrCurrentMeasures

-----------------------------------------------------------------------------
\* Properties of useData and useDimensions.

\* The distinct stringified values of a dimension over the loaded records.
DistinctValues(dimension) ==
    {FieldString(data[i], dimension) : i \in 1 .. Len(data)}

\* a option list starts with "All" and goes on with the distinct values of
\* the dimension in ascending order, each once.
AllThenSortedDistinct(options, dimension) ==
    /\ Len(options) = Cardinality(DistinctValues(dimension)) + 1
    /\ options[1] = StrAll
    /\ Range(Tail(options)) = DistinctValues(dimension)
    /\ \A i \in 2 .. Len(options) - 1 : StrLess(options[i], options[i + 1])

NoDuplicateEntry(options) ==
    \A i, j \in 1 .. Len(options) : options[i] = options[j] => i = j

\* C5 as claimed: for every loaded record sequence and every dimension the
\* option list is "All", then the distinct values ascending, with no
\* duplicate entry anywhere in the list.
C5_OptionsNoDuplicateAnywhere ==
    loadPc = "loaded" =>
        \A dimension \in Dimensions :
            /\ AllThenSortedDistinct(dimensions[dimension], dimension)
            /\ NoDuplicateEntry(dimensions[dimension])

\* C5 as amended: the option list is "All", then the distinct values
\* ascending with no duplicate among them, and its length is the number of
\* distinct values plus one; the list as a whole repeats an entry exactly
\* when a record's value of the dimension is the string "All", which then
\* is in the list twice.
C5_OptionsAllThenSortedDistinct ==
    loadPc = "loaded" =>
        \A dimension \in Dimensions :
            /\ AllThenSortedDistinct(dimensions[dimension], dimension)
            /\ NoDuplicateEntry(Tail(dimensions[dimension]))
            /\ NoDuplicateEntry(dimensions[dimension])
                   <=> StrAll \notin DistinctValues(dimension)
            /\ Count(dimensions[dimension], StrAll) <= 2

\* C5 witness: a load of two records, one of Region "All": the Region
\* options hold "All" twice, and the Year options are in string order
\* ("10" before "2021").
C5_Witness ==
    /\ loadPc = "loaded"
    /\ dimensions["Region"] = <<StrAll, StrAll, CellON>>
    /\ dimensions["Year"] = <<StrAll, Cell10, Cell2021>>

\* The records of one Year, in order.
OfYear(rows, year) == SelectSeq(rows, LAMBDA r : r.Year = year)

\* C6: the published records are the parsed rows in an order that is
\* non-decreasing in Year, and the records of each Year are in the order of
\* their rows in the text (so the published sequence is a permutation of
\* the parsed rows).
C6_SortedByYearStable ==
    loadPc = "loaded" =>
        LET rows == ParseRows(csv).rows
        IN  /\ Len(data) = Len(rows)
            /\ \A i \in 1 .. Len(data) - 1 : NumLeq(data[i].Year, data[i + 1].Year)
            /\ \A r \in Range(rows) \cup Range(data) :
                   OfYear(data, r.Year) = OfYear(rows, r.Year)

\* C6 witness: the rows of the text were not in order of Year, and the
\* published records are.
C6_Witness ==
    /\ loadPc = "loaded"
    /\ Len(data) = 2
    /\ data # ParseRows(csv).rows
    /\ data[1].Year # data[2].Year

\* C7: when the text has no header line (it is empty or white space only),
\* the parser fails with the missing-header error and publishes nothing.
C7_NoHeaderLineFails ==
    (loadPc \in {"loaded", "failed"} /\ Trim(csv) = <<>>) =>
        /\ loadPc = "failed"
        /\ alerted = "Missing headers"
        /\ data = Undefined

\* The cell of a data row under a header, by position (undefined when the
\* header or the cell is missing).
CellUnder(line, header) ==
    LET headers == Headers(csv)
        at == {i \in 1 .. Len(headers) : headers[i] = header}
        cells == SplitCells(line)
    IN  IF at = {} THEN Undefined
        ELSE LET i == CHOOSE a \in at : \A b \in at : b <= a
             IN  IF i > Len(cells) THEN Undefined ELSE CellValue(cells[i])

CoercesToFinite(cell) ==
    cell # Undefined /\ IsFinite(StringToNumber(cell))

\* A data row that must fail the load: a cell beyond the header, fewer
\* cells than the five fields of the schema, or a Year or Value that does
\* not coerce to a finite number.
BadRow(line) ==
    \/ Len(SplitCells(line)) > Len(Headers(csv))
    \/ Len(SplitCells(line)) < 5
    \/ ~CoercesToFinite(CellUnder(line, StrYear))
    \/ ~CoercesToFinite(CellUnder(line, StrValue))

\* C8: the load is fail-fast: records are published only when no data row
\* is bad, and every published record has a finite Year and a finite Value.
C8_FailFastFiniteNumbers ==
    loadPc = "loaded" =>
        /\ \A i \in 2 .. Len(Lines(csv)) : ~BadRow(Lines(csv)[i])
        /\ \A i \in 1 .. Len(data) :
               IsFinite(data[i].Year) /\ IsFinite(data[i].Value)

\* C10: after a fetch failure or a parse failure, what useData returns is
\* not what it returns while the load is pending (undefined).
C10_FailedDiffersFromPending ==
    loadPc \in {"rejected", "failed"} => useData # Undefined

-----------------------------------------------------------------------------
\* Properties of useDimensionData.

\* The (Scenarios, Regions) pairs the Selects can select.
SelectablePairs ==
    {<<sc, rg>> : sc \in Range(manifest.Scenarios), rg \in Range(manifest.Regions)}

\* A fetch is issued in this step.
FetchIssued == fetchCount' = fetchCount + 1

\* The effect of useDimensionData runs in this step, for a committed pair
\* it does not skip.
EffectRunsFor(pair) ==
    /\ lastStep' \in {"cache", "fetch"}
    /\ selectedDimensions' = [Scenarios |-> pair[1], Regions |-> pair[2]]

\* The cache is consulted before a fetch: a fetch is issued only for a
\* selection whose key the cache does not hold.
ConsultedBeforeFetch ==
    FetchIssued =>
        CacheKey(selectedDimensions'.Scenarios, selectedDimensions'.Regions)
            \notin DOMAIN dimensionDataCache

\* The effect running for a pair the cache holds an entry for issues no
\* fetch and sets that entry as the data to show.
HitShowsCached ==
    \A pair \in SelectablePairs :
        (EffectRunsFor(pair)
            /\ CacheKey(pair[1], pair[2]) \in DOMAIN dimensionDataCache) =>
            /\ ~FetchIssued
            /\ queuedData' = <<dimensionDataCache[CacheKey(pair[1], pair[2])]>>

\* An entry changes only when a fetch resolves, and the entry the cache
\* holds for a pair is the data fetched for that exact pair.
WrittenOnlyByFetchOfPair ==
    /\ dimensionDataCache' # dimensionDataCache =>
           \E request \in inFlight : request \notin inFlight'
    /\ \A pair \in SelectablePairs :
           CacheKey(pair[1], pair[2]) \in DOMAIN dimensionDataCache' =>
               dimensionDataCache'[CacheKey(pair[1], pair[2])] =
                   PublicFile(Url(pair[1], pair[2]))

\* No entry is removed.
NeverRemoved == DOMAIN dimensionDataCache \subseteq DOMAIN dimensionDataCache'

\* C9: in every step of useDimensionData the cache is consulted before a
\* fetch is issued, a selected pair the cache holds is shown from the cache
\* without a fetch, an entry is written only by a successful fetch for that
\* exact pair, and no entry is removed.
C9_CacheKeyedByExactPair ==
    [][ConsultedBeforeFetch /\ HitShowsCached /\ WrittenOnlyByFetchOfPair
           /\ NeverRemoved]_vars

-----------------------------------------------------------------------------
\* Properties of the order and the labels of the series.

\* The first position in the filtered data of a record of a series.
FirstAt(series) ==
    LET at == {i \in 1 .. Len(filteredData) : filteredData[i] \in Range(series.data)}
    IN  CHOOSE i \in at : \A j \in at : i <= j

\* The series are in the order in which their labels first occur in the
\* filtered data.
SeriesInFirstSeenOrder ==
    \A s, t \in 1 .. Len(chartData) :
        s < t => FirstAt(chartData[s]) < FirstAt(chartData[t])

\* The records of each series are in their order in the filtered data.
SeriesKeepInputOrder ==
    \A s \in 1 .. Len(chartData) :
        chartData[s].data =
            SelectSeq(filteredData, LAMBDA r : r \in Range(chartData[s].data))

\* C11: the series are in the order of the first occurrence of their label
\* in the filtered data, whatever the labels are, and the records of each
\* series keep their order.
C11_SeriesInFirstSeenOrder ==
    sectionPc = "rendered" => SeriesInFirstSeenOrder /\ SeriesKeepInputOrder

\* Whether the filter list constrains a dimension to a single value.
Constrained(dimension) ==
    \E k \in 1 .. Len(filters) :
        filters[k].dimension = dimension /\ filters[k].value # StrAll

LabelDimensions == {"Region", "Variable", "Scenario"}

\* The filtered records form exactly one series, of empty label.
OneEmptySeries == chartData = <<[label |-> <<>>, data |-> filteredData]>>

\* C12 as stated: whatever the filter list is, a label is empty only when
\* Region, Variable and Scenario are each constrained to a single value, and
\* then the filtered records form exactly one series of empty label.
C12_EmptyLabelOnlyWhenAllConstrained ==
    sectionPc = "rendered" =>
        /\ \A s \in 1 .. Len(chartData) :
               chartData[s].label = <<>> =>
                   \A dimension \in LabelDimensions : Constrained(dimension)
        /\ ((\A dimension \in LabelDimensions : Constrained(dimension))
                /\ Len(filteredData) > 0)
               => OneEmptySeries

\* C12 amended: a label is empty exactly when no filter of Region, Variable
\* or Scenario has the value "All" (each is constrained or has no filter), or
\* one of them alone has and the records of the series hold the empty string
\* for it; when none has, the filtered records form exactly one series of
\* empty label if there is a record, and no series otherwise.
C12_EmptyLabelWhenNoAllFilter ==
    sectionPc = "rendered" =>
        LET all == {dimension \in LabelDimensions : Unconstrained(dimension)}
        IN  /\ \A s \in 1 .. Len(chartData) :
                   chartData[s].label = <<>> <=>
                       \/ all = {}
                       \/ \E dimension \in all :
                              /\ all = {dimension}
                              /\ \A i \in 1 .. Len(chartData[s].data) :
                                     chartData[s].data[i][dimension] = <<>>
            /\ (all = {} /\ Len(filteredData) > 0) => OneEmptySeries
            /\ Len(filteredData) = 0 => chartData = <<>>

\* C12 witness: a filter list with no filter of Region, records of two
\* Regions filtered, and one series of empty label holding them.
C12_Witness ==
    /\ sectionPc = "rendered"
    /\ \A k \in 1 .. Len(filters) : filters[k].dimension # "Region"
    /\ \E i, j \in 1 .. Len(filteredData) :
           filteredData[i].Region # filteredData[j].Region
    /\ OneEmptySeries

-----------------------------------------------------------------------------
\* Properties of useDimensionData under concurrent fetches.

\* No two pairs the Selects can reach share a cache key.
KeysDistinguishPairs ==
    \A p, q \in SelectablePairs :
        CacheKey(p[1], p[2]) = CacheKey(q[1], q[2]) => p = q

\* C13: all fetches succeeding, in any order of completion, once no fetch is
\* in flight (and no effect or render is left to run) the dimensionData shown is the
\* data of the selected pair of Scenarios and Regions, never that of an
\* earlier selection.
C13_SettledShowsSelected ==
    (/\ manifestPc = "loaded"
     /\ pendingEffects = {}
     /\ queuedSelected = <<>>
     /\ queuedData = <<>>
     /\ inFlight = {}
     /\ ~Falsy(selectedDimensions.Scenarios)
     /\ ~Falsy(selectedDimensions.Regions)
     /\ KeysDistinguishPairs)
        => dimensionData =
               PublicFile(Url(selectedDimensions.Scenarios,
                              selectedDimensions.Regions))

====
